---------------------------- MODULE Spec2Model ----------------------------
(***************************************************************************)
(* Model of function_app.py: four HTTP handlers (AddUser, AddAppointment,  *)
(* GetUsers, GetUserAppointments) over one Cosmos DB container ("users").   *)
(*                                                                         *)
(* State: the container's documents, the number of identifiers drawn so    *)
(* far, the last request answered together with its response, and the      *)
(* requests that are inside a handler, stopped before their store call.    *)
(* Spec runs each handler from request to response in one step, over the   *)
(* full set of requests.  SpecConcurrent lets two clients be inside        *)
(* handlers at once: a handler runs up to its one store call (create_item  *)
(* or query_items), other requests run, then the call and the response     *)
(* follow.                                                                 *)
(***************************************************************************)
EXTENDS Integers, Sequences, FiniteSets

VARIABLES store, nextId, last, inflight

vars == <<store, nextId, last, inflight>>

(***************************************************************************)
(* Bounds                                                                  *)
(***************************************************************************)
\* identifiers that may be drawn; also bounds the number of stored records
MaxIds == 2

(***************************************************************************)
(* JSON values.  Every value is a record of one shape so that values of    *)
(* different JSON types can sit in one set.  A string is either plain text *)
(* (field s) or, with iso = TRUE, the text of a date-time: the minute n    *)
(* since 2024-01-01T00:00:00 written as YYYY-MM-DDTHH:MM:SS followed by    *)
(* the suffix z ("Z", "+00:00", "+02:00" or nothing).                    *)
(***************************************************************************)
None == [ty |-> "null", iso |-> FALSE, s |-> "", n |-> 0, z |-> ""]
Absent == [ty |-> "absent", iso |-> FALSE, s |-> "", n |-> 0, z |-> ""]
Str(t) == [ty |-> "string", iso |-> FALSE, s |-> t, n |-> 0, z |-> ""]
Num(k) == [ty |-> "number", iso |-> FALSE, s |-> "", n |-> k, z |-> ""]
Iso(m, suffix) == [ty |-> "string", iso |-> TRUE, s |-> "", n |-> m, z |-> suffix]
Obj(t) == [ty |-> "object", iso |-> FALSE, s |-> t, n |-> 0, z |-> ""]
\* the text of the k-th identifier drawn from uuid.uuid4()
Uuid(k) == [ty |-> "string", iso |-> FALSE, s |-> "uuid", n |-> k, z |-> ""]

\* a JSON object from a function whose Absent entries are left out
MkObj(f) == [k \in {x \in DOMAIN f : f[x] # Absent} |-> f[k]]

\* dict.get(key): the value, or None when the key is missing
Get(obj, k) == IF k \in DOMAIN obj THEN obj[k] ELSE None

\* Python truth value of a JSON value (`not name`, `u["name"]`)
Truthy(v) ==
  CASE v.ty = "null" -> FALSE
    [] v.ty = "string" -> v.iso \/ v.s # ""
    [] v.ty = "number" -> v.n # 0
    [] OTHER -> TRUE

CONTAINER_USERS == "users"
TENANT_ID_VALUE == Str("main_tenant")


(***************************************************************************)
(* Date-time arithmetic of AddAppointment                                  *)
(***************************************************************************)
\* start_time_iso.replace("Z", "+00:00"); None when the value has no
\* .replace (it is not a string) and the call raises AttributeError
ReplaceZ(v) ==
  IF v.ty # "string" THEN None
  ELSE IF v.iso /\ v.z = "Z" THEN Iso(v.n, "+00:00") ELSE v

\* datetime.fromisoformat accepts the text
IsoValid(v) == v.ty = "string" /\ v.iso /\ v.z \in {"", "+00:00", "+02:00"}

\* datetime.fromisoformat: local minute and utc offset ("" when naive)
FromIsoFormat(v) == [m |-> v.n, off |-> v.z]

\* start_dt + timedelta(minutes=k)
PlusMinutes(dt, k) == [m |-> dt.m + k, off |-> dt.off]

\* datetime.isoformat()
IsoFormat(dt) == Iso(dt.m, dt.off)

\* end_dt.isoformat().replace("+00:00", "Z")
ReplaceUtcOffset(v) == IF v.iso /\ v.z = "+00:00" THEN Iso(v.n, "Z") ELSE v

\* the appointment length the handler adds: timedelta(minutes=30)
APPOINTMENT_MINUTES == 30

(***************************************************************************)
(* The container                                                           *)
(***************************************************************************)
\* create_item turned into an upsert that overwrites the oldest record
CreateItem_Overwrite(container, body) ==
  IF Len(container) > 0 THEN [container EXCEPT ![1] = body]
  ELSE Append(container, body)

\* container.create_item(body=...)
CreateItem(container, body) == Append(container, body)

\* query_items("SELECT * FROM c", partition_key=pk)
QueryPartition(container, pk) ==
  SelectSeq(container, LAMBDA d : Get(d, "TenantId") = pk)

\* the query without its @user_id parameter: any record with a user_id
QueryByUserId_AnyUser(container, u) ==
  SelectSeq(container, LAMBDA d : "user_id" \in DOMAIN d)

\* query_items("SELECT * FROM c WHERE c.user_id=@user_id", cross partition)
QueryByUserId(container, u) ==
  SelectSeq(container, LAMBDA d : "user_id" \in DOMAIN d /\ d["user_id"] = u)

\* the list comprehension without its `if "name" in u and u["name"]`
FilterUsers_Unfiltered(users_data) ==
  [i \in 1..Len(users_data) |-> [id |-> Get(users_data[i], "id"),
                                 name |-> Get(users_data[i], "name")]]

\* the list comprehension of GetUsers
FilterUsers(users_data) ==
  LET kept == SelectSeq(users_data,
                        LAMBDA u : "name" \in DOMAIN u /\ Truthy(u["name"]))
  IN [i \in 1..Len(kept) |-> [id |-> Get(kept[i], "id"),
                              name |-> Get(kept[i], "name")]]

(***************************************************************************)
(* Record construction                                                     *)
(***************************************************************************)
default_availability == Obj("days Mon-Fri, start_time 08:00, end_time 16:00")

new_user(id, name, email) ==
  [id |-> Uuid(id), name |-> name, email |-> email,
   availability |-> default_availability, TenantId |-> TENANT_ID_VALUE]

\* the appointment partitioned by its user instead of the tenant constant
new_appointment_UserTenant(id, user_id, client_name, start_time_iso, end_dt) ==
  [id |-> Uuid(id), user_id |-> user_id, client_name |-> client_name,
   start_time |-> start_time_iso,
   end_time |-> ReplaceUtcOffset(IsoFormat(end_dt)),
   TenantId |-> user_id]

new_appointment(id, user_id, client_name, start_time_iso, end_dt) ==
  [id |-> Uuid(id), user_id |-> user_id, client_name |-> client_name,
   start_time |-> start_time_iso,
   end_time |-> ReplaceUtcOffset(IsoFormat(end_dt)),
   TenantId |-> TENANT_ID_VALUE]

(***************************************************************************)
(* Responses.  docs is the JSON payload: the created record, or the list   *)
(* of a query; logs counts the logging calls of the request, calls the     *)
(* store calls it made.  An exception that leaves the handler is answered  *)
(* by the Functions host with status 500 (kind "unhandled").              *)
(***************************************************************************)
Resp(status, kind, text, docs, logs, calls) ==
  [status |-> status, kind |-> kind, text |-> text, docs |-> docs,
   logs |-> logs, calls |-> calls]

\* what a handler run yields: the response, the container and the ids drawn
Out(resp, container, ids) == [resp |-> resp, store |-> container, ids |-> ids]

Preflight == Resp(200, "empty", "", <<>>, 0, 0)

\* the test with `and` for `or`: refuses only when both fields are missing
AddUserMissing_Both(name, email) == ~Truthy(name) /\ ~Truthy(email)

\* `if not name or not email`
AddUserMissing(name, email) == ~Truthy(name) \/ ~Truthy(email)

\* `if not user_id or not start_time_iso or not client_name`
AddAppointmentMissing(user_id, start_time_iso, client_name) ==
  ~Truthy(user_id) \/ ~Truthy(start_time_iso) \/ ~Truthy(client_name)

\* the store-layer behaviours of one call
StoreFaults == {"none", "CosmosHttpResponseError", "Exception"}

(***************************************************************************)
(* Handlers: r is the request, fault what the store call does if reached   *)
(***************************************************************************)
AddUserHandler(r, fault, container, ids) ==
  IF r.method = "OPTIONS" THEN Out(Preflight, container, ids)
  ELSE IF r.json = "invalid" THEN
    Out(Resp(400, "text", "Prosze przekazac dane w formacie JSON.", <<>>, 1, 0),
        container, ids)
  ELSE IF r.json # "object" THEN
    Out(Resp(500, "unhandled", "AttributeError", <<>>, 1, 0), container, ids)
  ELSE
    LET name == Get(r.body, "name")
        email == Get(r.body, "email")
        user == new_user(ids + 1, name, email)
    IN IF AddUserMissing(name, email) THEN
         Out(Resp(400, "text", "Wymagane pola to 'name' i 'email'.", <<>>, 1, 0),
             container, ids)
       ELSE IF fault # "none" THEN
         Out(Resp(500, "text", "Blad", <<>>, 2, 1), container, ids + 1)
       ELSE
         Out(Resp(201, "json", "", <<user>>, 1, 1),
             CreateItem(container, user), ids + 1)

AddAppointmentHandler(r, fault, container, ids) ==
  IF r.method = "OPTIONS" THEN Out(Preflight, container, ids)
  ELSE IF r.json = "invalid" THEN
    Out(Resp(400, "text", "Prosze przekazac dane w formacie JSON.", <<>>, 1, 0),
        container, ids)
  ELSE IF r.json # "object" THEN
    Out(Resp(500, "unhandled", "AttributeError", <<>>, 1, 0), container, ids)
  ELSE
    LET user_id == Get(r.body, "user_id")
        client_name == Get(r.body, "client_name")
        start_time_iso == Get(r.body, "start_time_iso")
        replaced == ReplaceZ(start_time_iso)
        end_dt == PlusMinutes(FromIsoFormat(replaced), APPOINTMENT_MINUTES)
        appt == new_appointment(ids + 1, user_id, client_name,
                                start_time_iso, end_dt)
    IN IF AddAppointmentMissing(user_id, start_time_iso, client_name) THEN
         Out(Resp(400, "text",
                  "Wymagane pola to 'user_id', 'client_name' i 'start_time'.",
                  <<>>, 1, 0), container, ids)
       ELSE IF replaced = None THEN
         Out(Resp(500, "unhandled", "AttributeError", <<>>, 1, 0),
             container, ids)
       ELSE IF ~IsoValid(replaced) THEN
         Out(Resp(400, "text", "Nieprawidlowy format daty/czasu 'start_time'.",
                  <<>>, 1, 0), container, ids)
       ELSE IF fault = "CosmosHttpResponseError" THEN
         Out(Resp(500, "text", "Blad Cosmos DB", <<>>, 2, 1), container, ids + 1)
       ELSE IF fault = "Exception" THEN
         Out(Resp(500, "text", "Wystapil nieznany blad serwera", <<>>, 2, 1),
             container, ids + 1)
       ELSE
         Out(Resp(201, "json", "", <<appt>>, 1, 1),
             CreateItem(container, appt), ids + 1)

GetUsersHandler(r, fault, container, ids) ==
  IF r.method = "OPTIONS" THEN Out(Preflight, container, ids)
  ELSE IF fault # "none" THEN
    Out(Resp(500, "text", "Blad serwera", <<>>, 2, 1), container, ids)
  ELSE
    LET users_data == QueryPartition(container, TENANT_ID_VALUE)
    IN Out(Resp(200, "json", "", FilterUsers(users_data), 1, 1), container, ids)

GetUserAppointmentsHandler(r, fault, container, ids) ==
  IF r.method = "OPTIONS" THEN Out(Preflight, container, ids)
  ELSE
    LET user_id == Get(r.params, "user_id")
    IN IF ~Truthy(user_id) THEN
         Out(Resp(400, "text", "Brak parametru 'user_id'.", <<>>, 0, 0),
             container, ids)
       ELSE IF fault # "none" THEN
         Out(Resp(500, "text", "Blad serwera", <<>>, 1, 1), container, ids)
       ELSE
         Out(Resp(200, "json", "", QueryByUserId(container, user_id), 0, 1),
             container, ids)

(***************************************************************************)
(* Requests                                                                *)
(***************************************************************************)
\* json: "object", "nonobject" (a JSON array, string, number or null),
\* "invalid" (get_json raises ValueError) or "none" (no body)
Req(method, route, json, body, params) ==
  [method |-> method, route |-> route, json |-> json, body |-> body,
   params |-> params]

NoFields == [k \in {} |-> None]

\* minutes since 2024-01-01T00:00:00 used as start times (600 is 10:00)
StartMinutes == {600}

NameInputs == {Absent, None, Str(""), Str("Alice")}
EmailInputs == {Absent, Str(""), Str("a@x.com")}
UserIdInputs == {Absent, Str(""), Uuid(1), Uuid(2)}
DurationInputs == {Absent, Num(60)}
\* a start time with a trailing Z, and the other values sent as start time:
\* an explicit +00:00, another offset, no offset, no date, a number
ZuluInputs == {Iso(m, "Z") : m \in StartMinutes}
OtherStartInputs ==
  {Iso(m, z) : m \in StartMinutes, z \in {"+00:00", "+02:00", ""}}
    \cup {Str("not-a-date"), Num(1704103200)}

\* bodies of POST /AddAppointment: all three fields sent under the names the
\* handler reads, then one field missing, empty or sent as start_time
AddAppointmentBodies ==
  {[user_id |-> u, client_name |-> Str("Bob"), start_time_iso |-> si,
    start_time |-> Absent, duration_minutes |-> d] :
     u \in {Uuid(1), Uuid(2)}, si \in ZuluInputs, d \in DurationInputs}
  \cup
  {[user_id |-> Uuid(1), client_name |-> Str("Bob"), start_time_iso |-> si,
    start_time |-> Absent, duration_minutes |-> d] :
     si \in OtherStartInputs, d \in DurationInputs}
  \cup
  {[user_id |-> u, client_name |-> Str("Bob"), start_time_iso |-> si,
    start_time |-> Absent, duration_minutes |-> Absent] :
     u \in {Absent, Str("")}, si \in ZuluInputs}
  \cup
  {[user_id |-> Uuid(1), client_name |-> Absent, start_time_iso |-> si,
    start_time |-> Absent, duration_minutes |-> Absent] : si \in ZuluInputs}
  \cup
  {[user_id |-> Uuid(1), client_name |-> Str("Bob"), start_time_iso |-> Absent,
    start_time |-> st, duration_minutes |-> Absent] :
     st \in {Absent} \cup ZuluInputs}

Preflights(route) == {Req("OPTIONS", route, "none", NoFields, NoFields)}

BadBodies(route) ==
  {Req("POST", route, j, NoFields, NoFields) : j \in {"invalid", "nonobject"}}

AddUserRequests ==
  Preflights("AddUser") \cup BadBodies("AddUser") \cup
  {Req("POST", "AddUser", "object", MkObj([name |-> n, email |-> e]), NoFields) :
     n \in NameInputs, e \in EmailInputs}

AddAppointmentRequests ==
  Preflights("AddAppointment") \cup BadBodies("AddAppointment") \cup
  {Req("POST", "AddAppointment", "object", MkObj(f), NoFields) :
     f \in AddAppointmentBodies}

GetUsersRequests ==
  Preflights("GetUsers") \cup {Req("GET", "GetUsers", "none", NoFields, NoFields)}

GetUserAppointmentsRequests ==
  Preflights("GetUserAppointments") \cup
  {Req("GET", "GetUserAppointments", "none", NoFields, MkObj([user_id |-> u])) :
     u \in UserIdInputs}

(***************************************************************************)
(* State machine                                                           *)
(***************************************************************************)
NoReq == Req("", "", "none", NoFields, NoFields)

\* the clients that may be inside a handler at the same time
Clients == {"c1", "c2"}

\* a client with no request inside a handler
Idle == [pc |-> "idle", req |-> NoReq, ids |-> 0]

Init ==
  /\ store = [c \in {CONTAINER_USERS} |-> <<>>]
  /\ nextId = 0
  /\ last = [req |-> NoReq, fault |-> "none",
             resp |-> Resp(0, "none", "", <<>>, 0, 0)]
  /\ inflight = [c \in Clients |-> Idle]

AddUser ==
  \E r \in AddUserRequests, fault \in StoreFaults :
    LET out == AddUserHandler(r, fault, store[CONTAINER_USERS], nextId)
    IN /\ out.ids <= MaxIds
       /\ store' = [store EXCEPT ![CONTAINER_USERS] = out.store]
       /\ nextId' = out.ids
       /\ last' = [req |-> r, fault |-> fault, resp |-> out.resp]
       /\ UNCHANGED inflight

AddAppointment ==
  \E r \in AddAppointmentRequests, fault \in StoreFaults :
    LET out == AddAppointmentHandler(r, fault, store[CONTAINER_USERS], nextId)
    IN /\ out.ids <= MaxIds
       /\ store' = [store EXCEPT ![CONTAINER_USERS] = out.store]
       /\ nextId' = out.ids
       /\ last' = [req |-> r, fault |-> fault, resp |-> out.resp]
       /\ UNCHANGED inflight

GetUsers ==
  \E r \in GetUsersRequests, fault \in StoreFaults :
    LET out == GetUsersHandler(r, fault, store[CONTAINER_USERS], nextId)
    IN /\ store' = [store EXCEPT ![CONTAINER_USERS] = out.store]
       /\ nextId' = out.ids
       /\ last' = [req |-> r, fault |-> fault, resp |-> out.resp]
       /\ UNCHANGED inflight

GetUserAppointments ==
  \E r \in GetUserAppointmentsRequests, fault \in StoreFaults :
    LET out == GetUserAppointmentsHandler(r, fault, store[CONTAINER_USERS],
                                          nextId)
    IN /\ store' = [store EXCEPT ![CONTAINER_USERS] = out.store]
       /\ nextId' = out.ids
       /\ last' = [req |-> r, fault |-> fault, resp |-> out.resp]
       /\ UNCHANGED inflight

Next == AddUser \/ AddAppointment \/ GetUsers \/ GetUserAppointments

Spec == Init /\ [][Next]_vars

(***************************************************************************)
(* Concurrent requests                                                     *)
(***************************************************************************)
\* @app.route: the handler of the request's route
Dispatch(r, fault, container, ids) ==
  CASE r.route = "AddUser" -> AddUserHandler(r, fault, container, ids)
    [] r.route = "AddAppointment" ->
         AddAppointmentHandler(r, fault, container, ids)
    [] r.route = "GetUsers" -> GetUsersHandler(r, fault, container, ids)
    [] OTHER -> GetUserAppointmentsHandler(r, fault, container, ids)

\* the handler gets as far as its store call (nothing before the call reads
\* the container or depends on what the call will do)
ReachesStore(r) == Dispatch(r, "none", <<>>, 0).resp.calls > 0

\* the requests sent concurrently: every pre-flight, a create of each kind,
\* a refused create, and both listings
ConcurrentRequests ==
  Preflights("AddUser") \cup Preflights("AddAppointment")
    \cup GetUsersRequests
    \cup {r \in GetUserAppointmentsRequests :
            Get(r.params, "user_id") \in {None, Uuid(1)}}
    \cup {r \in AddUserRequests :
            r.json = "object" /\ Get(r.body, "email") = Str("a@x.com")
              /\ Get(r.body, "name") \in {None, Str("Alice")}}
    \cup {r \in AddAppointmentRequests :
            /\ r.json = "object"
            /\ Get(r.body, "user_id") = Uuid(1)
            /\ Get(r.body, "client_name") = Str("Bob")
            /\ Get(r.body, "start_time_iso") \in ZuluInputs
            /\ "duration_minutes" \notin DOMAIN r.body}

\* client c sends r: the handler runs up to its store call, or answers at
\* once when it returns before it
Begin(c) ==
  \E r \in ConcurrentRequests :
    /\ inflight[c].pc = "idle"
    /\ IF ReachesStore(r)
       THEN LET drawn == Dispatch(r, "none", <<>>, nextId).ids
            IN /\ drawn <= MaxIds
               /\ inflight' = [inflight EXCEPT
                                 ![c] = [pc |-> "calling", req |-> r,
                                         ids |-> nextId]]
               /\ nextId' = drawn
               /\ UNCHANGED <<store, last>>
       ELSE /\ last' = [req |-> r, fault |-> "none",
                        resp |-> Dispatch(r, "none", <<>>, nextId).resp]
            /\ UNCHANGED <<store, nextId, inflight>>

\* the store call of the request of client c, and the response
Complete(c) ==
  \E fault \in StoreFaults :
    /\ inflight[c].pc = "calling"
    /\ LET r == inflight[c].req
           out == Dispatch(r, fault, store[CONTAINER_USERS], inflight[c].ids)
       IN /\ store' = [store EXCEPT ![CONTAINER_USERS] = out.store]
          /\ last' = [req |-> r, fault |-> fault, resp |-> out.resp]
    /\ inflight' = [inflight EXCEPT ![c] = Idle]
    /\ UNCHANGED nextId

NextConcurrent == \E c \in Clients : Begin(c) \/ Complete(c)

SpecConcurrent == Init /\ [][NextConcurrent]_vars

TypeOK ==
  /\ nextId \in 0..MaxIds
  /\ Len(store[CONTAINER_USERS]) <= nextId
  /\ last.resp.status \in {0, 200, 201, 400, 500}

(***************************************************************************)
(* Vocabulary of the properties                                            *)
(***************************************************************************)
\* the records of the container, in stored order
Records == store[CONTAINER_USERS]

\* the field is missing, null or the empty string
Blank(obj, k) == k \notin DOMAIN obj \/ obj[k] \in {None, Str("")}

\* the value is the text of an ISO 8601 date-time
IsTimestamp(v) == v.ty = "string" /\ v.iso

\* the instant a date-time text denotes, in minutes, read as UTC when the
\* text carries no offset
UtcMinute(v) ==
  v.n - (CASE v.z = "+02:00" -> 120 [] OTHER -> 0)

IsUserRecord(d) == "email" \in DOMAIN d
IsAppointmentRecord(d) == "client_name" \in DOMAIN d

\* the last request was a POST /AddAppointment with a JSON object as body
AppointmentPost ==
  /\ last.req.route = "AddAppointment"
  /\ last.req.method = "POST"
  /\ last.req.json = "object"

\* how often record d occurs in list L
Occurrences(L, d) == Cardinality({i \in 1..Len(L) : L[i] = d})

(***************************************************************************)
(* C1  A created appointment ends duration_minutes after it starts         *)
(***************************************************************************)
\* C1: for every AddAppointment request answered 201, the record persisted
\* and returned has end_time exactly duration_minutes minutes after
\* start_time, duration_minutes being the integer of the request body, or 30
\* when the body has none.
C1_EndAfterDuration ==
  (AppointmentPost /\ last.resp.status = 201) =>
    LET body == last.req.body
        rec == last.resp.docs[1]
        duration == IF "duration_minutes" \in DOMAIN body
                    THEN body["duration_minutes"].n ELSE 30
    IN /\ Len(Records) > 0 /\ Records[Len(Records)] = rec
       /\ UtcMinute(rec["end_time"]) - UtcMinute(rec["start_time"]) = duration

(***************************************************************************)
(* C2  A booking that names its start time start_time is accepted          *)
(***************************************************************************)
\* C2: a POST /AddAppointment whose body has non-empty user_id and
\* client_name and a valid ISO 8601 timestamp under start_time, without
\* duration_minutes, with the store working, is answered 201 with the
\* appointment record, which is persisted, ending 30 minutes after its start.
C2_StartTimeFieldAccepted ==
  (/\ AppointmentPost
   /\ ~Blank(last.req.body, "user_id")
   /\ ~Blank(last.req.body, "client_name")
   /\ "start_time" \in DOMAIN last.req.body
   /\ IsTimestamp(last.req.body["start_time"])
   /\ "duration_minutes" \notin DOMAIN last.req.body
   /\ last.fault = "none")
  => /\ last.resp.status = 201
     /\ Len(last.resp.docs) = 1
     /\ Len(Records) > 0 /\ Records[Len(Records)] = last.resp.docs[1]

(***************************************************************************)
(* C3  A request with a missing required field is refused before the store *)
(***************************************************************************)
\* the request lacks a required field (missing, null or empty), read under
\* the name the handler reads it
MissingRequired(r) ==
  /\ r.method # "OPTIONS"
  /\ \/ /\ r.route = "AddUser" /\ r.json = "object"
        /\ Blank(r.body, "name") \/ Blank(r.body, "email")
     \/ /\ r.route = "AddAppointment" /\ r.json = "object"
        /\ \/ Blank(r.body, "user_id")
           \/ Blank(r.body, "client_name")
           \/ Blank(r.body, "start_time_iso")
     \/ /\ r.route = "GetUserAppointments"
        /\ Blank(r.params, "user_id")

C4_MalformedTimestampRejected ==
  (/\ AppointmentPost
   /\ ~Blank(last.req.body, "user_id")
   /\ ~Blank(last.req.body, "client_name")
   /\ ~Blank(last.req.body, "start_time_iso")
   /\ ~IsTimestamp(last.req.body["start_time_iso"]))
  => last.resp.status = 400 /\ last.resp.calls = 0

(***************************************************************************)
(* C5  GetUsers lists the named records, as {id, name}                     *)
(***************************************************************************)
HasName(d) == "name" \in DOMAIN d /\ d["name"] \notin {None, Str("")}

\* C5: after any sequence of create requests, GetUsers with the store
\* working answers 200 with exactly one {id, name} entry for each stored
\* record of the tenant partition that has a non-empty name and no entry for
\* any other record, none for an appointment record; no entry has an email
\* or an availability.
C5_UsersListing ==
  (last.req.route = "GetUsers" /\ last.req.method = "GET"
     /\ last.fault = "none")
  => LET L == last.resp.docs
     IN /\ last.resp.status = 200
        /\ \A i \in 1..Len(L) : DOMAIN L[i] = {"id", "name"}
        /\ \A j \in 1..Len(Records) :
             (HasName(Records[j]) /\ Records[j]["TenantId"] = Str("main_tenant"))
               => Occurrences(L, [id |-> Records[j]["id"],
                                  name |-> Records[j]["name"]]) = 1
        /\ \A i \in 1..Len(L) :
             \E j \in 1..Len(Records) :
               /\ HasName(Records[j])
               /\ ~IsAppointmentRecord(Records[j])
               /\ L[i] = [id |-> Records[j]["id"], name |-> Records[j]["name"]]

\* a listing of one user taken from a store that also holds an appointment
C5_Witness ==
  /\ last.req.route = "GetUsers" /\ last.resp.status = 200
  /\ Len(last.resp.docs) = 1
  /\ \E j \in 1..Len(Records) : IsAppointmentRecord(Records[j])

(***************************************************************************)
(* C6  GetUserAppointments lists the records of one user_id                *)
(***************************************************************************)
\* C6: GetUserAppointments with a non-empty user_id u and the store working
\* answers 200 with exactly the stored records whose user_id equals u, each
\* in its stored shape; no user record and no appointment of another user.
C6_AppointmentsListing ==
  (/\ last.req.route = "GetUserAppointments" /\ last.req.method = "GET"
   /\ ~Blank(last.req.params, "user_id")
   /\ last.fault = "none")
  => LET L == last.resp.docs
         u == last.req.params["user_id"]
     IN /\ last.resp.status = 200
        /\ \A j \in 1..Len(Records) :
             Occurrences(L, Records[j]) =
               IF "user_id" \in DOMAIN Records[j] /\ Records[j]["user_id"] = u
               THEN 1 ELSE 0
        /\ \A i \in 1..Len(L) :
             /\ \E j \in 1..Len(Records) : Records[j] = L[i]
             /\ ~IsUserRecord(L[i])
             /\ L[i]["user_id"] = u

\* a listing of one appointment taken from a store holding a second record
C6_Witness ==
  /\ last.req.route = "GetUserAppointments" /\ last.resp.status = 200
  /\ Len(last.resp.docs) = 1
  /\ Len(Records) = 2

(***************************************************************************)
(* C7  Every record carries the fixed tenant tag                           *)
(***************************************************************************)
\* C7: in every reachable state every stored record carries a tenant tag
\* equal to the one fixed tenant constant, and no step changes the tag of a
\* stored record.
C7_TenantTag ==
  [][/\ \A j \in 1..Len(Records') :
          /\ "TenantId" \in DOMAIN Records'[j]
          /\ Records'[j]["TenantId"] = Str("main_tenant")
     /\ \A j \in 1..Len(Records) :
          /\ j <= Len(Records')
          /\ Records'[j]["TenantId"] = Records[j]["TenantId"]]_vars

\* a store holding a user record and an appointment record
C7_Witness ==
  /\ \E j \in 1..Len(Records) : IsUserRecord(Records[j])
  /\ \E j \in 1..Len(Records) : IsAppointmentRecord(Records[j])

(***************************************************************************)
(* C8  Records are never changed or removed                                *)
(***************************************************************************)
\* C8: in any order of requests to the four handlers a persisted record
\* stays in the store with every field unchanged; each create answered 201
\* adds exactly one record, the one it returns, and no other request
\* (GetUsers, GetUserAppointments, an OPTIONS pre-flight, a refused or
\* failed create) adds, changes or removes a record.
C8_RecordsImmutable ==
  [][/\ \A j \in 1..Len(Records) :
          j <= Len(Records') /\ Records'[j] = Records[j]
     /\ \/ Records' = Records
        \/ /\ Len(Records') = Len(Records) + 1
           /\ last' # last
           /\ last'.resp.status = 201
           /\ Records'[Len(Records')] = last'.resp.docs[1]
     /\ (last' # last /\ last'.resp.status = 201)
          => Len(Records') = Len(Records) + 1
     /\ (last' # last /\ last'.req.method \in {"GET", "OPTIONS"})
          => Records' = Records]_vars

\* a full store read by a listing or probed by a pre-flight while another
\* request is inside a handler
C8_Witness ==
  /\ Len(Records) = MaxIds
  /\ last.req.method \in {"GET", "OPTIONS"}
  /\ last.resp.status = 200
  /\ \E c \in Clients : inflight[c].pc = "calling"

(***************************************************************************)
(* C9  Appointment times are stored in UTC with a trailing Z               *)
(***************************************************************************)
\* C9: every appointment record persisted stores start_time and end_time as
\* UTC ISO 8601 texts with a trailing Z, for every accepted form of the
\* start time (trailing Z, +00:00, another offset, no offset).
C9_TimesStoredAsZulu ==
  \A j \in 1..Len(Records) :
    IsAppointmentRecord(Records[j]) =>
      /\ IsTimestamp(Records[j]["start_time"])
      /\ Records[j]["start_time"].z = "Z"
      /\ IsTimestamp(Records[j]["end_time"])
      /\ Records[j]["end_time"].z = "Z"

(***************************************************************************)
(* C10  Every failure is answered non-2xx and logged                       *)
(***************************************************************************)
\* the request failed: a validation failure or a failure of the store call
Failed ==
  \/ last.resp.status \in {400, 500}
  \/ last.resp.calls > 0 /\ last.fault # "none"

\* C10: in all four handlers every request that ends in a failure is
\* answered with a non-2xx status and writes at least one log entry.
C10_FailuresLogged ==
  Failed => last.resp.status \notin 200..299 /\ last.resp.logs >= 1
=============================================================================
